---- MODULE Spec2Model ----
(***************************************************************************)
(* State-machine model of the RP2040 PropMaker repulsor glove (code.py).   *)
(*                                                                         *)
(* One iteration of the main loop is split at the calls it makes:          *)
(*   pc = "button"   handle_button()                                       *)
(*   pc = "continue" the `continue` of the motion-skip test                *)
(*   pc = "angle"    the raise/lower block around check_arm_angle()        *)
(*   pc = "gesture"  the blast block around check_blast_gesture()          *)
(*   pc = "leds"     update_leds()                                         *)
(*   pc = "sleep"    time.sleep at the end of the iteration                *)
(*   pc = "crashed"  an exception has left the loop, the program has ended *)
(*                                                                         *)
(* The clock is read as `now` by every call of one iteration and advances  *)
(* between iterations (Sleep, Continue), by an amount that stands for the  *)
(* sleep and the running time of the iteration, and by the sleep of a      *)
(* flicker frame in update_leds.  What the                                 *)
(* accelerometer reports (arm, accel_x) changes while time passes.  The     *)
(* x_debug read of the main loop changes no state and is left out.         *)
(*                                                                         *)
(* Units: time is in milliseconds (time.monotonic() * 1000), angles are    *)
(* in degrees, the filtered angle is kept multiplied by the buffer length  *)
(* (the sum of the buffer) so that the mean is exact, MOVEMENT_THRESHOLD   *)
(* is in tenths of a degree and x acceleration in tenths of m/s^2.         *)
(***************************************************************************)
EXTENDS Integers, Sequences, FiniteSets, TLC

\* ------------------------------------------------------------------ bounds
BootTime == 100      \* value of the monotonic clock at the first iteration
MaxTime == 11100     \* Spec: the clock is not advanced past this value
FineMaxTime == 2850  \* SpecFine: the clock is not advanced past this value
StepMaxTime == 12100 \* SpecStep: the clock is not advanced past this value
HoldFrom == 600      \* SpecStep, SpecBucket: the glove is held still from then on
BucketMaxTime == 10100  \* SpecBucket: the clock is not advanced past this
MaxArmMoves == 1     \* number of times the arm changes its angle

Deltas == {1000, 5000}       \* Spec: time one loop iteration may take
FineDeltas == {250, 500}     \* SpecFine: time one loop iteration may take
StepDeltas == {500}          \* SpecStep: time one loop iteration takes
\* SpecBucket: iteration times that put a release on either side of each
\* press threshold
BucketDeltas == {999, 1000, 4999, 5000, 7999, 8000}
Angles == {-180, 10, 180}    \* atan2(y, z) in degrees, as read
XSamples == {65, 70}         \* x acceleration, as read (tenths)

\* ----------------------------------------------------------- configuration
ANGLE_THRESHOLD == 35
MOVEMENT_THRESHOLD == 8
BLAST_X_THRESHOLD == 65
FADE_DURATION == 500
BLAST_DURATION == 1500
BLAST_COOLDOWN == 1000
ANGLE_CHECK_INTERVAL == 50
LONG_PRESS_THRESHOLD == 1000
VERY_LONG_PRESS_THRESHOLD == 5000
EXTRA_LONG_PRESS_THRESHOLD == 8000
BUFFER_LEN == 20
FLICKER_SLEEP == 50

COLORS == <<"WHITE", "RED", "BLUE", "CYAN", "YELLOW", "GREEN", "PURPLE", "ORANGE">>

\* class RepulsorState
OFF == "off"
FADING_ON == "fading_on"
ON == "on"
FADING_OFF == "fading_off"
BLAST == "blast"
ALWAYS_ON == "always_on"
COLOR_CHANGE == "color_change"
SHUTDOWN == "shutdown"

RepulsorState ==
    {OFF, FADING_ON, ON, FADING_OFF, BLAST, ALWAYS_ON, COLOR_CHANGE, SHUTDOWN}

\* sound indices of play_wav; NO_SOUND is audio.stop() / nothing started
NO_SOUND == -1
SND_BLAST == 0
SND_POWER_UP == 1
SND_POWER_DOWN == 2
SND_MODE_LOOP == 3

VARIABLES
    current_state, color_index, current_color,
    fade_start_time, blast_start_time, last_angle_check_time, last_blast_time,
    button_press_start_time,
    angle_buffer, buffer_index, last_filtered_angle,
    last_read,         \* new_value of the latest calculate_moving_average()
    same_reads,        \* calls in a row, up to the latest, that were given
                       \* last_read (counted up to BUFFER_LEN)
    blast_triggered,
    arm_motion,        \* result of the last check_arm_angle() call
    press_duration,    \* press_duration of the running handle_button(), -1 if none
    audio,             \* sound last started on the I2S output, NO_SOUND if stopped
    pixels,            \* frame last shown on the NeoPixel ring
    blast_log,         \* number of "BLAST!" lines printed
    button_down,       \* debounced level held by the Button object
    arm, arm_moves,    \* angle the accelerometer reports, and how often it changed
    accel_x,           \* x acceleration the accelerometer reports
    now,               \* time.monotonic() * 1000
    pc

vars ==
    <<current_state, color_index, current_color, fade_start_time,
      blast_start_time, last_angle_check_time, last_blast_time,
      button_press_start_time, angle_buffer, buffer_index, last_filtered_angle,
      last_read, same_reads, blast_triggered, arm_motion, press_duration, audio, pixels, blast_log,
      button_down, arm, arm_moves, accel_x, now, pc>>

timers == <<fade_start_time, blast_start_time, last_blast_time>>
filter ==
    <<angle_buffer, buffer_index, last_filtered_angle, last_angle_check_time,
      last_read, same_reads>>
palette == <<color_index, current_color>>
sensors == <<arm, arm_moves, accel_x>>

\* ------------------------------------------------------------------ helpers
Abs(n) == IF n < 0 THEN -n ELSE n

RECURSIVE SumTo(_, _)
SumTo(buf, n) == IF n = 0 THEN 0 ELSE buf[n] + SumTo(buf, n - 1)

\* sum(angle_buffer); the moving average is this divided by len(angle_buffer)
BufferSum(buf) == SumTo(buf, Len(buf))

Init ==
    /\ current_state = OFF
    /\ color_index = 0
    /\ current_color = COLORS[1]
    /\ fade_start_time = 0
    /\ blast_start_time = 0
    /\ last_angle_check_time = 0
    /\ last_blast_time = 0
    /\ button_press_start_time = 0
    /\ angle_buffer = [i \in 1..BUFFER_LEN |-> 0]
    /\ buffer_index = 0
    /\ last_filtered_angle = 0
    /\ last_read = 0
    /\ same_reads = 0
    /\ blast_triggered = FALSE
    /\ arm_motion = "none"
    /\ press_duration = -1
    /\ audio = NO_SOUND
    /\ pixels = "DARK"
    /\ blast_log = 0
    /\ button_down \in BOOLEAN
    /\ arm \in Angles
    /\ arm_moves = 0
    /\ accel_x \in XSamples
    /\ now = BootTime
    /\ pc = "button"

\* ------------------------------------------------------------ handle_button
\* The edge button.update() reports, given the debounced level it held.
ButtonEdges(down) == IF down THEN {"none", "released"} ELSE {"none", "pressed"}

\* PressBucket with the thresholds as exclusive lower bounds
PressBucket_exclusive(duration) ==
    IF duration > EXTRA_LONG_PRESS_THRESHOLD THEN "ExtraLong"
    ELSE IF duration > VERY_LONG_PRESS_THRESHOLD THEN "VeryLong"
    ELSE IF duration > LONG_PRESS_THRESHOLD THEN "Long"
    ELSE "Short"

\* PressBucket of a released press, longest threshold first.
PressBucket(duration) ==
    IF duration >= EXTRA_LONG_PRESS_THRESHOLD THEN "ExtraLong"
    ELSE IF duration >= VERY_LONG_PRESS_THRESHOLD THEN "VeryLong"
    ELSE IF duration >= LONG_PRESS_THRESHOLD THEN "Long"
    ELSE "Short"

\* ReleasedState with a Long press in ColorChange going back to On
ReleasedState_exit_to_on(s, bucket) ==
    CASE bucket = "ExtraLong" -> s
      [] bucket = "VeryLong" -> IF s = ALWAYS_ON THEN OFF ELSE ALWAYS_ON
      [] bucket = "Long" -> IF s # COLOR_CHANGE THEN COLOR_CHANGE ELSE ON
      [] OTHER -> s

\* ReleasedState with a VeryLong press that enters AlwaysOn and never leaves it
ReleasedState_no_toggle(s, bucket) ==
    CASE bucket = "ExtraLong" -> s
      [] bucket = "VeryLong" -> ALWAYS_ON
      [] bucket = "Long" -> IF s # COLOR_CHANGE THEN COLOR_CHANGE ELSE OFF
      [] OTHER -> s

\* ReleasedState with the ExtraLong press shutting the glove down
ReleasedState_shutdown(s, bucket) ==
    CASE bucket = "ExtraLong" -> SHUTDOWN
      [] bucket = "VeryLong" -> IF s = ALWAYS_ON THEN OFF ELSE ALWAYS_ON
      [] bucket = "Long" -> IF s # COLOR_CHANGE THEN COLOR_CHANGE ELSE OFF
      [] OTHER -> s

\* current_state after a press of the given bucket was released in state s.
ReleasedState(s, bucket) ==
    CASE bucket = "ExtraLong" -> s
      [] bucket = "VeryLong" -> IF s = ALWAYS_ON THEN OFF ELSE ALWAYS_ON
      [] bucket = "Long" -> IF s # COLOR_CHANGE THEN COLOR_CHANGE ELSE OFF
      [] OTHER -> s

\* audio after play_wav(num): a failure is caught and nothing is started.
Played(num, ok, snd) == IF ok THEN num ELSE snd

\* audio after a press of the given bucket was released in state s.
ReleasedAudio(s, bucket, snd, ok) ==
    IF bucket = "Long"
    THEN (IF s # COLOR_CHANGE THEN Played(SND_MODE_LOOP, ok, NO_SOUND)
          ELSE NO_SOUND)
    ELSE snd

\* ReleasedColorIndex that stops at the last colour
ReleasedColorIndex_no_wrap(s, bucket, idx) ==
    IF bucket = "Short" /\ s = COLOR_CHANGE /\ idx + 1 < Len(COLORS)
    THEN idx + 1 ELSE idx

\* color_index after a press of the given bucket was released in state s.
ReleasedColorIndex(s, bucket, idx) ==
    IF bucket = "Short" /\ s = COLOR_CHANGE THEN (idx + 1) % Len(COLORS) ELSE idx

\* frame on the ring after a press of the given bucket was released in state s.
ReleasedPixels(s, bucket, idx, color, frame) ==
    CASE bucket = "VeryLong" /\ s # ALWAYS_ON -> color
      [] bucket = "Short" /\ s = COLOR_CHANGE ->
            COLORS[ReleasedColorIndex(s, bucket, idx) + 1]
      [] OTHER -> frame

\* The motion-skip test of the main loop.
MotionSkipped(s) == s \in {COLOR_CHANGE, SHUTDOWN}

\* button_press_start_time after the pressed test of handle_button.
PressStart(edge, start, t) ==
    IF edge = "pressed" /\ start = 0 THEN t ELSE start

\* Classified with the test of button_press_start_time left out
Classified_any_release(edge, start) == edge = "released"

\* The released test of handle_button: the press is classified.
Classified(edge, start) == edge = "released" /\ start > 0

\* handle_button, oks being the outcomes a play_wav call may have.
HandleButtonW(oks) ==
    /\ pc = "button"
    /\ \E edge \in ButtonEdges(button_down), ok \in oks :
        LET started == PressStart(edge, button_press_start_time, now)
        IN  /\ button_down' = (IF edge = "none" THEN button_down
                               ELSE edge = "pressed")
            /\ IF Classified(edge, started)
               THEN LET duration == now - started
                        bucket == PressBucket(duration)
                    IN  /\ press_duration' = duration
                        /\ button_press_start_time' = 0
                        /\ current_state' = ReleasedState(current_state, bucket)
                        /\ audio' = ReleasedAudio(current_state, bucket, audio, ok)
                        /\ color_index' =
                              ReleasedColorIndex(current_state, bucket, color_index)
                        /\ current_color' = COLORS[color_index' + 1]
                        /\ pixels' = ReleasedPixels(current_state, bucket,
                                        color_index, current_color, pixels)
               ELSE /\ press_duration' = -1
                    /\ button_press_start_time' = started
                    /\ UNCHANGED <<current_state, audio, palette, pixels>>
    /\ pc' = IF MotionSkipped(current_state') THEN "continue" ELSE "angle"
    /\ UNCHANGED <<timers, filter, blast_triggered, arm_motion, blast_log,
                   sensors, now>>

HandleButton == HandleButtonW({TRUE})

\* audio.stop() of the Long branch raises: the exception leaves handle_button
\* after button_press_start_time was reset and ends the program.
AudioStopFails ==
    /\ pc = "button"
    /\ Classified("released", button_press_start_time)
    /\ button_down
    /\ PressBucket(now - button_press_start_time) = "Long"
    /\ button_down' = FALSE
    /\ press_duration' = now - button_press_start_time
    /\ button_press_start_time' = 0
    /\ pc' = "crashed"
    /\ UNCHANGED <<current_state, audio, palette, pixels, timers, filter,
                   blast_triggered, arm_motion, blast_log, sensors, now>>

\* What the accelerometer reports after time has passed; from holdFrom on the
\* glove is held still and both readings stay as they are.
SensorsDrift(holdFrom) ==
    /\ \E x \in XSamples :
        /\ x # accel_x => now < holdFrom
        /\ accel_x' = x
    /\ \E a \in Angles :
        /\ a # arm => arm_moves < MaxArmMoves /\ now < holdFrom
        /\ arm' = a
        /\ arm_moves' = IF a = arm THEN arm_moves ELSE arm_moves + 1

\* `continue`: the next iteration starts without update_leds() and sleep.
ContinueFor(D, maxT, holdFrom) ==
    /\ pc = "continue"
    /\ \E d \in D :
        /\ now + d <= maxT
        /\ now' = now + d
    /\ SensorsDrift(holdFrom)
    /\ pc' = "button"
    /\ UNCHANGED <<current_state, palette, timers, filter,
                   button_press_start_time, blast_triggered, arm_motion,
                   press_duration, audio, pixels, blast_log, button_down>>

\* ----------------------------------------------------------- motion, angle
\* angle_buffer after calculate_moving_average(new_value)
BufferPut(buf, idx, new_value) == [buf EXCEPT ![idx + 1] = new_value]

\* NextBufferIndex that wraps one slot early
NextBufferIndex_short(idx, len) == (idx + 1) % (len - 1)

\* buffer_index after calculate_moving_average
NextBufferIndex(idx, len) == (idx + 1) % len

\* The hysteresis test of check_arm_angle, on sums of the buffer.
Insignificant(filtered, last) ==
    Abs(filtered - last) * 10 < MOVEMENT_THRESHOLD * BUFFER_LEN

\* AngleResult with the comparison of the raise test turned round
AngleResult_raise_above(filtered, last, s) ==
    IF Insignificant(filtered, last) THEN "none"
    ELSE IF filtered >= ANGLE_THRESHOLD * BUFFER_LEN /\ s = OFF THEN "raise"
    ELSE IF filtered > ANGLE_THRESHOLD * BUFFER_LEN /\ s = ON THEN "lower"
    ELSE "none"

\* AngleResult without the hysteresis test
AngleResult_no_hysteresis(filtered, last, s) ==
    IF filtered <= ANGLE_THRESHOLD * BUFFER_LEN /\ s = OFF THEN "raise"
    ELSE IF filtered > ANGLE_THRESHOLD * BUFFER_LEN /\ s = ON THEN "lower"
    ELSE "none"

\* AngleResult with the raise test taken before the hysteresis test
AngleResult_raise_when_still(filtered, last, s) ==
    IF filtered <= ANGLE_THRESHOLD * BUFFER_LEN /\ s = OFF THEN "raise"
    ELSE IF Insignificant(filtered, last) THEN "none"
    ELSE IF filtered > ANGLE_THRESHOLD * BUFFER_LEN /\ s = ON THEN "lower"
    ELSE "none"

\* Result of check_arm_angle once the rate limit has passed.
AngleResult(filtered, last, s) ==
    IF Insignificant(filtered, last) THEN "none"
    ELSE IF filtered <= ANGLE_THRESHOLD * BUFFER_LEN /\ s = OFF THEN "raise"
    ELSE IF filtered > ANGLE_THRESHOLD * BUFFER_LEN /\ s = ON THEN "lower"
    ELSE "none"

\* AngleSkipped with BLAST left out of the list
AngleSkipped_not_in_blast(s) == s \in {ALWAYS_ON}

\* States in which the main loop does not call check_arm_angle().
AngleSkipped(s) == s \in {ALWAYS_ON, BLAST}

\* The raise/lower block, oks being the outcomes a play_wav call may have.
ArmAngleStepW(oks) ==
    /\ pc = "angle"
    /\ pc' = "gesture"
    /\ \E ok \in oks :
       IF AngleSkipped(current_state)
       THEN UNCHANGED <<filter, arm_motion, current_state, fade_start_time, audio>>
       ELSE IF now - last_angle_check_time < ANGLE_CHECK_INTERVAL
       THEN /\ arm_motion' = "none"
            /\ UNCHANGED <<filter, current_state, fade_start_time, audio>>
       ELSE LET buf == BufferPut(angle_buffer, buffer_index, arm)
                filtered == BufferSum(buf)
                result == AngleResult(filtered, last_filtered_angle, current_state)
            IN  /\ last_angle_check_time' = now
                /\ angle_buffer' = buf
                /\ buffer_index' = NextBufferIndex(buffer_index, Len(angle_buffer))
                /\ last_read' = arm
                /\ same_reads' =
                      IF same_reads > 0 /\ arm = last_read
                      THEN (IF same_reads < BUFFER_LEN THEN same_reads + 1
                            ELSE same_reads)
                      ELSE 1
                /\ last_filtered_angle' =
                      IF Insignificant(filtered, last_filtered_angle)
                      THEN last_filtered_angle ELSE filtered
                /\ arm_motion' = result
                /\ CASE result = "raise" ->
                            /\ audio' = Played(SND_POWER_UP, ok, audio)
                            /\ fade_start_time' = now
                            /\ current_state' = FADING_ON
                     [] result = "lower" ->
                            /\ audio' = Played(SND_POWER_DOWN, ok, audio)
                            /\ fade_start_time' = now
                            /\ current_state' = FADING_OFF
                     [] OTHER ->
                            UNCHANGED <<audio, fade_start_time, current_state>>
    /\ UNCHANGED <<palette, blast_start_time, last_blast_time,
                   button_press_start_time, blast_triggered, press_duration,
                   pixels, blast_log, button_down, sensors, now>>

ArmAngleStep == ArmAngleStepW({TRUE})

\* ---------------------------------------------------------- blast gesture
\* check_blast_gesture without the test of current_state
check_blast_gesture_any_state ==
    IF blast_triggered THEN FALSE
    ELSE IF now - last_blast_time < BLAST_COOLDOWN THEN FALSE
    ELSE accel_x > BLAST_X_THRESHOLD

\* check_blast_gesture without the cooldown test
check_blast_gesture_no_cooldown ==
    IF current_state # ON THEN FALSE
    ELSE IF blast_triggered THEN FALSE
    ELSE accel_x > BLAST_X_THRESHOLD

check_blast_gesture ==
    IF current_state # ON THEN FALSE
    ELSE IF blast_triggered THEN FALSE
    ELSE IF now - last_blast_time < BLAST_COOLDOWN THEN FALSE
    ELSE accel_x > BLAST_X_THRESHOLD

\* The blast block, oks being the outcomes a play_wav call may have.
BlastGestureStepW(oks) ==
    /\ pc = "gesture"
    /\ pc' = "leds"
    /\ IF check_blast_gesture
       THEN /\ blast_triggered' = TRUE
            /\ blast_start_time' = now
            /\ last_blast_time' = now
            /\ current_state' = BLAST
            /\ \E ok \in oks : audio' = Played(SND_BLAST, ok, audio)
            /\ blast_log' = blast_log + 1
       ELSE UNCHANGED <<blast_triggered, blast_start_time, last_blast_time,
                        current_state, audio, blast_log>>
    /\ UNCHANGED <<palette, fade_start_time, filter, button_press_start_time,
                   arm_motion, press_duration, pixels, button_down, sensors, now>>

BlastGestureStep == BlastGestureStepW({TRUE})

\* lis3dh.acceleration raises: in check_arm_angle after the rate limit was
\* passed and last_angle_check_time set, or in the x_debug read and
\* check_blast_gesture of an iteration in On.  Nothing catches it.
AccelReadFails ==
    /\ \/ /\ pc = "angle"
          /\ ~AngleSkipped(current_state)
          /\ now - last_angle_check_time >= ANGLE_CHECK_INTERVAL
          /\ last_angle_check_time' = now
       \/ /\ pc = "gesture"
          /\ current_state = ON
          /\ UNCHANGED last_angle_check_time
    /\ pc' = "crashed"
    /\ UNCHANGED <<current_state, palette, timers, angle_buffer, buffer_index,
                   last_filtered_angle, last_read, same_reads,
                   button_press_start_time, blast_triggered, arm_motion,
                   press_duration, audio, pixels, blast_log, button_down,
                   sensors, now>>

\* -------------------------------------------------------------- update_leds
\* FadeRunning with the duration taken in seconds
FadeRunning_in_seconds(elapsed) == elapsed < FADE_DURATION \div 1000

FadeRunning(elapsed) == elapsed < FADE_DURATION
BlastRunning(elapsed) == elapsed < BLAST_DURATION

\* FrameEnd of a Blast branch that flickers until the blast is over
FrameEnd_blocking(t, start) == start + BLAST_DURATION

\* The clock when update_leds returns from a running blast: one frame shown.
FrameEnd(t, start) == t + FLICKER_SLEEP

UpdateLeds ==
    /\ pc = "leds"
    /\ pc' = "sleep"
    /\ CASE current_state = OFF ->
                /\ pixels' = "DARK"
                /\ UNCHANGED <<current_state, blast_triggered>>
         [] current_state = FADING_ON ->
                IF FadeRunning(now - fade_start_time)
                THEN /\ pixels' = "FADE"
                     /\ UNCHANGED <<current_state, blast_triggered>>
                ELSE /\ pixels' = current_color
                     /\ current_state' = ON
                     /\ UNCHANGED blast_triggered
         [] current_state \in {ON, ALWAYS_ON} ->
                /\ pixels' = current_color
                /\ UNCHANGED <<current_state, blast_triggered>>
         [] current_state = FADING_OFF ->
                IF FadeRunning(now - fade_start_time)
                THEN /\ pixels' = "FADE"
                     /\ UNCHANGED <<current_state, blast_triggered>>
                ELSE /\ pixels' = "DARK"
                     /\ current_state' = OFF
                     /\ UNCHANGED blast_triggered
         [] current_state = BLAST ->
                IF BlastRunning(now - blast_start_time)
                THEN /\ pixels' = "FLICKER"
                     /\ UNCHANGED <<current_state, blast_triggered>>
                ELSE /\ blast_triggered' = FALSE
                     /\ current_state' = ON
                     /\ pixels' = current_color
         [] OTHER -> UNCHANGED <<pixels, current_state, blast_triggered>>
    /\ now' = IF current_state = BLAST /\ BlastRunning(now - blast_start_time)
              THEN FrameEnd(now, blast_start_time) ELSE now
    /\ UNCHANGED <<palette, timers, filter, button_press_start_time, arm_motion,
                   press_duration, audio, blast_log, button_down, sensors>>

\* time.sleep at the end of the iteration
SleepFor(D, maxT, holdFrom) ==
    /\ pc = "sleep"
    /\ \E d \in D :
        /\ now + d <= maxT
        /\ now' = now + d
    /\ SensorsDrift(holdFrom)
    /\ pc' = "button"
    /\ UNCHANGED <<current_state, palette, timers, filter,
                   button_press_start_time, blast_triggered, arm_motion,
                   press_duration, audio, pixels, blast_log, button_down>>

Continue == ContinueFor(Deltas, MaxTime, MaxTime)
Sleep == SleepFor(Deltas, MaxTime, MaxTime)

Next ==
    \/ HandleButton
    \/ Continue
    \/ ArmAngleStep
    \/ BlastGestureStep
    \/ UpdateLeds
    \/ Sleep

\* Iterations of 1 s or 5 s, long enough for every press bucket.
Spec == Init /\ [][Next]_vars

ContinueFine == ContinueFor(FineDeltas, FineMaxTime, FineMaxTime)
SleepFine == SleepFor(FineDeltas, FineMaxTime, FineMaxTime)

NextFine ==
    \/ HandleButton
    \/ ContinueFine
    \/ ArmAngleStep
    \/ BlastGestureStep
    \/ UpdateLeds
    \/ SleepFine

\* Iterations of 250 or 500 ms, fine enough for the fade, blast and cooldown
\* intervals to be seen part-way.
SpecFine == Init /\ [][NextFine]_vars

ContinueStep == ContinueFor(StepDeltas, StepMaxTime, HoldFrom)
SleepStep == SleepFor(StepDeltas, StepMaxTime, HoldFrom)

NextStep ==
    \/ HandleButton
    \/ ContinueStep
    \/ ArmAngleStep
    \/ BlastGestureStep
    \/ UpdateLeds
    \/ SleepStep

\* Iterations of 500 ms with the glove held still after the first one: long
\* enough for the angle buffer to fill and for the palette to wrap round.
SpecStep == Init /\ [][NextStep]_vars

ContinueBucket == ContinueFor(BucketDeltas, BucketMaxTime, HoldFrom)
SleepBucket == SleepFor(BucketDeltas, BucketMaxTime, HoldFrom)

NextBucket ==
    \/ HandleButton
    \/ ContinueBucket
    \/ ArmAngleStep
    \/ BlastGestureStep
    \/ UpdateLeds
    \/ SleepBucket

\* Iterations that end just below or exactly on a press threshold after the
\* previous one, the glove held still after the first.
SpecBucket == Init /\ [][NextBucket]_vars

\* The three calls with play_wav failing or not.
HandleButtonFaulty == HandleButtonW(BOOLEAN)
ArmAngleStepFaulty == ArmAngleStepW(BOOLEAN)
BlastGestureStepFaulty == BlastGestureStepW(BOOLEAN)

NextFaulty ==
    \/ HandleButtonFaulty
    \/ AudioStopFails
    \/ Continue
    \/ ArmAngleStepFaulty
    \/ BlastGestureStepFaulty
    \/ AccelReadFails
    \/ UpdateLeds
    \/ Sleep

\* Spec with collaborators that may fail: a sound file that cannot be played,
\* an I2S output that cannot be stopped, an accelerometer that cannot be read.
SpecFaulty == Init /\ [][NextFaulty]_vars

TypeOK ==
    /\ current_state \in RepulsorState
    /\ color_index \in 0..(Len(COLORS) - 1)
    /\ buffer_index \in 0..(BUFFER_LEN - 1)
    /\ now >= BootTime

\* ==================================================================== claims

\* A step that enters Blast: the blast block of the main loop has run.
EntersBlast == current_state' = BLAST /\ current_state # BLAST

\* C1: every step that changes current_state to Blast starts in state On.
C1_BlastOnlyFromOn == [][EntersBlast => current_state = ON]_vars

\* C1 witness: the blast block has just turned On into Blast.
C1_Witness ==
    /\ pc = "leds"
    /\ current_state = BLAST
    /\ blast_start_time = now

\* C2: every blast starts at least BLAST_COOLDOWN after last_blast_time, which
\* is the start of the previous blast (0 before the first one): it changes in
\* no other step, and each start prints one "BLAST!" line.
C2_BlastCooldown ==
    [][(EntersBlast \/ last_blast_time' # last_blast_time \/ blast_log' # blast_log)
        => /\ EntersBlast
           /\ now' - last_blast_time >= BLAST_COOLDOWN
           /\ last_blast_time' = now'
           /\ blast_log' = blast_log + 1]_vars

\* C2 witness: a second blast has started.
C2_Witness ==
    /\ current_state = BLAST
    /\ last_blast_time = now
    /\ blast_log = 2

\* C3 (as claimed): the gesture check returns true, and the state becomes
\* Blast, exactly when the state is On (so not Blast), the cooldown has
\* elapsed and x > 6.5.
C3_GestureIffOnCooldownX ==
    [][(pc = "gesture" /\ pc' = "leds")
        => (EntersBlast <=> /\ current_state = ON
                            /\ now - last_blast_time >= BLAST_COOLDOWN
                            /\ accel_x > BLAST_X_THRESHOLD)]_vars

\* The filtered angle (times BUFFER_LEN) the angle check of this step computed.
Filtered == BufferSum(angle_buffer)

\* A step in which check_arm_angle() passed its rate limit and fed the filter.
AngleChecked == buffer_index' # buffer_index

\* C4: the state becomes FadingOn only from Off, on a raise with the filtered
\* angle <= 35, and FadingOff only from On, on a lower with the filtered angle
\* > 35; a step taken in AlwaysOn, Blast, ColorChange or Shutdown changes
\* neither the filter state nor the state to FadingOn or FadingOff.
C4_AngleGating ==
    [][/\ (current_state' = FADING_ON /\ current_state # FADING_ON)
            => /\ current_state = OFF
               /\ AngleChecked
               /\ arm_motion' = "raise"
               /\ Filtered' <= ANGLE_THRESHOLD * BUFFER_LEN
       /\ (current_state' = FADING_OFF /\ current_state # FADING_OFF)
            => /\ current_state = ON
               /\ AngleChecked
               /\ arm_motion' = "lower"
               /\ Filtered' > ANGLE_THRESHOLD * BUFFER_LEN
       /\ current_state \in {ALWAYS_ON, BLAST, COLOR_CHANGE, SHUTDOWN}
            => /\ UNCHANGED filter
               /\ arm_motion' = arm_motion
               /\ current_state' \notin {FADING_ON, FADING_OFF}]_vars

\* C4 witness: the angle block was passed during a blast, with an angle check
\* due, after an earlier raise had started a fade.
C4_Witness ==
    /\ pc = "gesture"
    /\ current_state = BLAST
    /\ now - last_angle_check_time >= ANGLE_CHECK_INTERVAL
    /\ fade_start_time > 0

\* C5: an angle check whose filtered angle differs from last_filtered_angle
\* by less than MOVEMENT_THRESHOLD returns None and changes neither the state
\* nor last_filtered_angle nor the fade timer.
C5_Hysteresis ==
    [][(AngleChecked
        /\ Abs(Filtered' - last_filtered_angle) * 10 < MOVEMENT_THRESHOLD * BUFFER_LEN)
        => /\ arm_motion' = "none"
           /\ current_state' = current_state
           /\ last_filtered_angle' = last_filtered_angle
           /\ fade_start_time' = fade_start_time]_vars

\* C5 witness: an angle check in Off moved the filtered angle by less than the
\* threshold, to a value <= 35 that differs from last_filtered_angle.
C5_Witness ==
    /\ pc = "gesture"
    /\ last_angle_check_time = now
    /\ current_state = OFF
    /\ arm_motion = "none"
    /\ Filtered # last_filtered_angle
    /\ Abs(Filtered - last_filtered_angle) * 10 < MOVEMENT_THRESHOLD * BUFFER_LEN
    /\ Filtered <= ANGLE_THRESHOLD * BUFFER_LEN

\* No angle check has wrapped the buffer: its last slot still holds the 0 of
\* the start (no angle read is 0), so every slot written held 0 before.
NotWrapped == angle_buffer[BUFFER_LEN] = 0

\* C6: an angle check in Off that moves the filtered angle by at least
\* MOVEMENT_THRESHOLD to a value <= 35 (as from 40 to 20) emits raise, and the
\* state becomes FadingOn with fade_start_time set to now; update_leds() in
\* FadingOn makes the state On exactly when now - fade_start_time >= 500,
\* showing current_color; no step taken in Off or FadingOn changes the colour.
C6_PowerUp ==
    [][/\ ( /\ current_state = OFF
            /\ AngleChecked
            /\ Filtered' <= ANGLE_THRESHOLD * BUFFER_LEN
            /\ Abs(Filtered' - last_filtered_angle) * 10
                  >= MOVEMENT_THRESHOLD * BUFFER_LEN )
            => /\ arm_motion' = "raise"
               /\ current_state' = FADING_ON
               /\ fade_start_time' = now'
       /\ (pc = "leds" /\ current_state = FADING_ON)
            => IF now - fade_start_time >= FADE_DURATION
               THEN current_state' = ON /\ pixels' = current_color
               ELSE current_state' = FADING_ON
       /\ current_state \in {OFF, FADING_ON}
            => UNCHANGED <<current_color, color_index>>]_vars

\* C6 witness: update_leds() has just made the state On, 500 ms after a raise
\* (the power-up sound is the last one started) that took the filtered angle
\* from above 35 to at most 35: the filtered angle was above 35 both two and
\* three angle checks ago, the raise being one of the last three checks.
C6_Witness ==
    /\ pc = "sleep"
    /\ current_state = ON
    /\ now - fade_start_time = FADE_DURATION
    /\ audio = SND_POWER_UP
    /\ pixels = current_color
    /\ current_color = COLORS[1]
    /\ NotWrapped
    /\ buffer_index >= 3
    /\ LET before2 == Filtered - angle_buffer[buffer_index]
                               - angle_buffer[buffer_index - 1]
           before3 == before2 - angle_buffer[buffer_index - 2]
       IN  /\ before2 > ANGLE_THRESHOLD * BUFFER_LEN
           /\ before3 > ANGLE_THRESHOLD * BUFFER_LEN

\* C7: FadingOn -> On and FadingOff -> Off happen only with at least 500 ms
\* elapsed since fade_start_time, Blast -> On only with at least 1500 ms since
\* blast_start_time; a step that enters a fading state (resp. Blast) sets
\* fade_start_time (resp. blast_start_time) to now, and a step that stays in
\* it leaves the timer alone.
C7_TimedExits ==
    [][/\ (current_state = FADING_ON /\ current_state' = ON)
            => now' - fade_start_time >= FADE_DURATION
       /\ (current_state = FADING_OFF /\ current_state' = OFF)
            => now' - fade_start_time >= FADE_DURATION
       /\ (current_state = BLAST /\ current_state' = ON)
            => now' - blast_start_time >= BLAST_DURATION
       /\ (current_state' \in {FADING_ON, FADING_OFF} /\ current_state' # current_state)
            => fade_start_time' = now'
       /\ (current_state \in {FADING_ON, FADING_OFF} /\ current_state' = current_state)
            => fade_start_time' = fade_start_time
       /\ EntersBlast => blast_start_time' = now'
       /\ (current_state = BLAST /\ current_state' = BLAST)
            => blast_start_time' = blast_start_time]_vars

\* C7 witness: update_leds() has just ended a blast, 1500 ms after its start.
C7_Witness ==
    /\ pc = "sleep"
    /\ current_state = ON
    /\ blast_log >= 1
    /\ ~blast_triggered
    /\ now - blast_start_time = BLAST_DURATION

\* A step of handle_button() that classified a released press.
Released == pc = "button" /\ press_duration' >= 0

IsLong(d) == d >= LONG_PRESS_THRESHOLD /\ d < VERY_LONG_PRESS_THRESHOLD
IsVeryLong(d) == d >= VERY_LONG_PRESS_THRESHOLD /\ d < EXTRA_LONG_PRESS_THRESHOLD

\* C8: a Long press released in a state other than ColorChange changes the
\* state to ColorChange, one released in ColorChange changes it to Off.
C8_LongPress ==
    [][(Released /\ IsLong(press_duration'))
        => current_state' = IF current_state # COLOR_CHANGE
                            THEN COLOR_CHANGE ELSE OFF]_vars

\* C8 witness: handle_button() has just left ColorChange for Off on a Long
\* press, ColorChange having been entered by an earlier Long press.
C8_Witness ==
    /\ pc = "angle"
    /\ IsLong(press_duration)
    /\ current_state = OFF
    /\ audio = NO_SOUND

\* C9: a VeryLong press released in AlwaysOn changes the state to Off, one
\* released in On or in Off changes it to AlwaysOn.
C9_VeryLongToggle ==
    [][(Released /\ IsVeryLong(press_duration'))
        => /\ current_state = ALWAYS_ON => current_state' = OFF
           /\ current_state \in {ON, OFF} => current_state' = ALWAYS_ON]_vars

\* C9 witness: handle_button() has just left AlwaysOn for Off on a VeryLong
\* press (released in any other state it gives AlwaysOn).
C9_Witness ==
    /\ pc = "angle"
    /\ IsVeryLong(press_duration)
    /\ current_state = OFF

\* C10 (as claimed): a VeryLong press released in FadingOn, FadingOff, Blast
\* or ColorChange leaves current_state unchanged.
C10_VeryLongElsewhereNoOp ==
    [][(Released /\ IsVeryLong(press_duration')
        /\ current_state \in {FADING_ON, FADING_OFF, BLAST, COLOR_CHANGE})
        => current_state' = current_state]_vars

\* A Short press is released in ColorChange.
ShortInColorChange ==
    /\ Released
    /\ press_duration' < LONG_PRESS_THRESHOLD
    /\ current_state = COLOR_CHANGE

\* C11: a Short press released in ColorChange moves color_index one place on
\* round the eight colours, shows COLORS[color_index] and stays in
\* ColorChange; no other step changes color_index, and current_color is
\* always COLORS[color_index].  From index 0, N such presses give N mod 8.
C11_PaletteCycle ==
    [][(ShortInColorChange =>
            /\ color_index' = (color_index + 1) % 8
            /\ current_state' = COLOR_CHANGE
            /\ pixels' = COLORS[color_index' + 1])
       /\ (color_index' # color_index => ShortInColorChange)
       /\ current_color' = COLORS[color_index' + 1]]_vars

\* C11 witness: the eighth Short press has been released in ColorChange, the
\* ring shows the first colour again.
C11_Witness ==
    /\ pc = "continue"
    /\ current_state = COLOR_CHANGE
    /\ press_duration >= 0
    /\ press_duration < LONG_PRESS_THRESHOLD
    /\ color_index = 0
    /\ current_color = COLORS[1]

IsShort(d) == d >= 0 /\ d < LONG_PRESS_THRESHOLD
IsExtraLong(d) == d >= EXTRA_LONG_PRESS_THRESHOLD

\* The branch of handle_button that ran, told by what it did: the Long branch
\* moves the state into or out of ColorChange, the VeryLong branch into or
\* out of AlwaysOn, the Short branch moves color_index in ColorChange only,
\* the ExtraLong branch does nothing.
RanExtraLong == UNCHANGED <<current_state, palette, audio, pixels>>
RanVeryLong ==
    /\ current_state' = (IF current_state = ALWAYS_ON THEN OFF ELSE ALWAYS_ON)
    /\ UNCHANGED <<palette, audio>>
RanLong ==
    /\ current_state' = (IF current_state = COLOR_CHANGE THEN OFF ELSE COLOR_CHANGE)
    /\ UNCHANGED palette
RanShort ==
    /\ UNCHANGED <<current_state, audio>>
    /\ (color_index' # color_index) = (current_state = COLOR_CHANGE)

\* C12: a released press runs exactly one branch, chosen by its duration with
\* inclusive lower bounds, longest first: ExtraLong from 8000 ms, VeryLong
\* from 5000, Long from 1000, Short below (999 is Short, 1000 Long, 4999
\* Long, 5000 VeryLong, 7999 VeryLong, 8000 ExtraLong).
C12_Buckets ==
    [][Released =>
        /\ press_duration' >= 8000 => RanExtraLong
        /\ press_duration' \in 5000..7999 => RanVeryLong
        /\ press_duration' \in 1000..4999 => RanLong
        /\ press_duration' \in 0..999 => RanShort]_vars

\* C12 witness: a press of 999 ms was released in ColorChange and moved the
\* palette on, after the press of 1000 ms that entered ColorChange.
C12_Witness ==
    /\ pc = "continue"
    /\ press_duration = 999
    /\ current_state = COLOR_CHANGE
    /\ color_index = 1

PressedEdge == pc = "button" /\ ~button_down /\ button_down'
ReleasedEdge == pc = "button" /\ button_down /\ ~button_down'

\* C13: button_press_start_time is set, to the current time, on a pressed
\* edge while it is 0 and changes otherwise only when a release is
\* classified, which resets it to 0; a released edge is classified exactly
\* when button_press_start_time is non-zero, with the duration release time
\* minus button_press_start_time.  So a press is classified at most once and
\* never with button_press_start_time = 0.
C13_TrackedPress ==
    [][/\ button_press_start_time' # button_press_start_time =>
            \/ /\ PressedEdge
               /\ button_press_start_time = 0
               /\ button_press_start_time' = now
            \/ Released
       /\ PressedEdge /\ button_press_start_time = 0 =>
            button_press_start_time' = now
       /\ Released = (ReleasedEdge /\ button_press_start_time > 0)
       /\ Released =>
            /\ press_duration' = now - button_press_start_time
            /\ button_press_start_time' = 0]_vars

\* C13 witness: a release has been classified with the time since the pressed
\* edge, and tracking is idle again.
C13_Witness ==
    /\ pc \in {"angle", "continue"}
    /\ press_duration >= LONG_PRESS_THRESHOLD
    /\ press_duration <= now - BootTime
    /\ button_press_start_time = 0
    /\ ~button_down

C15_MovingAverage ==
    same_reads >= BUFFER_LEN =>
        /\ \A i \in 1..BUFFER_LEN : angle_buffer[i] = last_read
        /\ Filtered = BUFFER_LEN * last_read
        /\ buffer_index \in 0..(BUFFER_LEN - 1)

\* C15 witness: the arm moved once after the first read, and the 20 reads
\* since then have overwritten that read and the zeros the buffer held.
C15_Witness ==
    /\ same_reads = BUFFER_LEN
    /\ arm_moves = 1
    /\ buffer_index = 1
    /\ last_read = arm
    /\ Filtered = BUFFER_LEN * arm

\* C16: update_leds in Blast shows at most one flicker frame, taking no more
\* than the frame's sleep, and hands over to the rest of the iteration; a
\* press released while the state is Blast is classified and applied by the
\* handle_button call that sees the released edge.
C16_BlastDoesNotBlock ==
    [][/\ pc = "leds" /\ current_state = BLAST =>
            /\ pc' = "sleep"
            /\ now' - now <= FLICKER_SLEEP
            /\ button_down' = button_down
       /\ pc = "sleep" => pc' = "button"
       /\ ReleasedEdge /\ button_press_start_time > 0 /\ current_state = BLAST =>
            /\ Released
            /\ IsLong(press_duration') => current_state' = COLOR_CHANGE
            /\ IsVeryLong(press_duration') => current_state' = ALWAYS_ON
            /\ IsShort(press_duration') => current_state' = BLAST]_vars

\* C16 witness: a Long press was released while the blast was flickering and
\* has changed the state to ColorChange before the 1500 ms were over.
C16_Witness ==
    /\ pc = "continue"
    /\ current_state = COLOR_CHANGE
    /\ IsLong(press_duration)
    /\ pixels = "FLICKER"
    /\ now - blast_start_time < BLAST_DURATION
    /\ now - blast_start_time > FLICKER_SLEEP

\* C17: a failing accelerometer read, audio play or audio stop never ends
\* the program: the loop goes on to its next iteration.
C17_FailuresNotFatal == pc # "crashed"

\* An iteration of the main loop has run to its end.
EndOfTick == pc \in {"sleep", "continue"}

\* C18: at the end of every iteration blast_triggered is true exactly when
\* current_state is Blast.
C18_FlagMirrorsState ==
    EndOfTick => (blast_triggered = (current_state = BLAST))

\* C19: the looping mode sound is playing only while current_state is
\* ColorChange: whatever press leaves ColorChange stops the audio.
C19_ModeLoopOnlyInColorChange ==
    audio = SND_MODE_LOOP => current_state = COLOR_CHANGE

\* The filter has settled on the angle the arm is held at: every slot holds
\* it, and their mean is within the movement threshold of last_filtered_angle.
Settled ==
    /\ \A i \in 1..BUFFER_LEN : angle_buffer[i] = arm
    /\ Insignificant(Filtered, last_filtered_angle)

\* Off with the arm held raised, the filter settled and the button untouched.
StuckOff ==
    /\ current_state = OFF
    /\ Settled
    /\ Filtered <= ANGLE_THRESHOLD * BUFFER_LEN
    /\ ~button_down
    /\ button_press_start_time = 0

\* C20 (as claimed): in Off, with the filtered angle at or below 35 degrees
\* and no button press, the state becomes FadingOn; so no angle check leaves
\* the glove Off with the filter settled on the raised arm, a state that no
\* later check of the still arm changes.
C20_RaisedArmTurnsOn ==
    ~(/\ StuckOff
      /\ pc = "gesture"
      /\ last_angle_check_time = now
      /\ arm_motion = "none")

\* C20 (amended): an angle check in Off changes the state to FadingOn exactly
\* when the filtered angle is at or below 35 degrees and differs from
\* last_filtered_angle by at least 0.8 degrees; once the filter has settled
\* on a raised arm in Off, the state stays Off, settled, for as long as the
\* arm is held still and the button is not pressed.
C20_RaiseNeedsMovement ==
    [][/\ (current_state = OFF /\ AngleChecked) =>
            ((current_state' = FADING_ON) =
                (/\ Filtered' <= ANGLE_THRESHOLD * BUFFER_LEN
                 /\ ~Insignificant(Filtered', last_filtered_angle)))
       /\ (StuckOff /\ arm' = arm /\ ~button_down') => StuckOff']_vars

\* C20 witness: Off was reached from ColorChange with the arm held raised
\* since boot; the angle check of this iteration ran, the ring is dark.
C20_Witness ==
    /\ StuckOff
    /\ pc = "sleep"
    /\ last_angle_check_time = now
    /\ same_reads = BUFFER_LEN
    /\ pixels = "DARK"

====
